---- MODULE Spec2Model ----
(***************************************************************************)
(* Batch orchestration and row reconciliation of the GA4 batch runner:     *)
(* app/batch.py (load_batch_config, run_batch, main) and app/report.py     *)
(* (chunk_metrics, run_report's response normalisation).                   *)
(*                                                                         *)
(* Python strings whose characters matter (dimension values, dimension     *)
(* keys) are sequences of one-character strings; all other strings are     *)
(* TLA+ strings.  A Python dict is a function; combined_rows, whose        *)
(* insertion order decides the order of the written rows, is a sequence of *)
(* [key, row] entries with pairwise distinct keys.                         *)
(***************************************************************************)
EXTENDS Integers, Sequences, FiniteSets, TLC

\* ------------------------------------------------------------------ bounds
MaxBrands == 2
MaxWindows == 2
MaxReports == 2
MaxQueries == 8
MaxFairQueries == 4
MaxLen == 5
MaxSize == 3

\* ------------------------------------------------------- program constants
MAX_METRICS_PER_REQUEST == 10
REQUEST_DELAY_SECONDS == 1

VARIABLES
    pc,              \* position of main / run_batch
    config,          \* the dict load_batch_config reads and returns
    exit_code,       \* what the process signals: "none" while running
    ri, bi, wi, ci,  \* positions of the four nested for loops (0 = before the first)
    metric_chunks,   \* run_batch: metric_chunks of the current report
    combined_rows,   \* run_batch: the row map of the current cell
    csv_files,       \* one output file per report reached, in order
    total_queries,   \* run_batch: total_queries
    errors,          \* run_batch: errors
    log,             \* every run_report call and every time.sleep, in order
    cm_pc,           \* chunk_metrics called on its own: "idle", "call", "returned"
    cm_metrics,      \* its metrics argument
    cm_max_size,     \* its max_size argument
    cm_result        \* its return value

vars == <<pc, config, exit_code, ri, bi, wi, ci, metric_chunks, combined_rows,
          csv_files, total_queries, errors, log,
          cm_pc, cm_metrics, cm_max_size, cm_result>>

batch_vars == <<pc, config, exit_code, ri, bi, wi, ci, metric_chunks, combined_rows,
                csv_files, total_queries, errors, log>>

cm_vars == <<cm_pc, cm_metrics, cm_max_size, cm_result>>

\* ----------------------------------------------------------------- helpers
Min(a, b) == IF a < b THEN a ELSE b

Range(s) == {s[i] : i \in 1..Len(s)}

RECURSIVE Concat(_)
Concat(ss) == IF ss = <<>> THEN <<>> ELSE Head(ss) \o Concat(Tail(ss))

RECURSIVE SumSeq(_)
SumSeq(s) == IF s = <<>> THEN 0 ELSE Head(s) + SumSeq(Tail(s))

\* ----------------------------------------------------------- chunk_metrics
\* range(0, n, step) for step > 0, as the set of its elements
RangeStarts(n, step) == {i \in 0..(n - 1) : i % step = 0}

\* metrics[i : j] with 0-based i, Python's clipping of j to len(metrics)
Slice(s, i, j) == SubSeq(s, i + 1, Min(j, Len(s)))

\* faulty variant: only the full windows, the shorter last one is lost
ChunkMetricsFullOnly(metrics, max_size) ==
    [k \in 1..(Len(metrics) \div max_size) |->
        Slice(metrics, (k - 1) * max_size, (k - 1) * max_size + max_size)]

ChunkMetrics(metrics, max_size) ==
    [k \in 1..Cardinality(RangeStarts(Len(metrics), max_size)) |->
        Slice(metrics, (k - 1) * max_size, (k - 1) * max_size + max_size)]

\* -------------------------------------------------------------- run_report
\* A dict built by assigning values[i] to names[i] for i = 1, 2, ...: a later
\* assignment to the same name replaces the earlier one.
LastIndex(names, f) ==
    CHOOSE i \in 1..Len(names) :
        names[i] = f /\ \A j \in (i + 1)..Len(names) : names[j] # f

DictOf(names, values) == [f \in Range(names) |-> values[LastIndex(names, f)]]

\* record[dim] = row.dimension_values[i].value, then record[met] = row.metric_values[i].value
RecordOf(dimensions, metrics, raw) ==
    DictOf(dimensions \o metrics, raw.dimension_values \o raw.metric_values)

\* results of run_report for the rows of one response
Results(dimensions, metrics, response) ==
    [i \in 1..Len(response) |-> RecordOf(dimensions, metrics, response[i])]

\* ------------------------------------------------- run_batch: reconciliation
TOTAL == <<"_", "_", "t", "o", "t", "a", "l", "_", "_">>
SEP == <<"|">>

\* sep.join(parts)
RECURSIVE Join(_, _)
Join(sep, parts) ==
    IF parts = <<>> THEN <<>>
    ELSE IF Len(parts) = 1 THEN parts[1]
    ELSE parts[1] \o sep \o Join(sep, Tail(parts))

\* row.get(d, "")
Get(row, d) == IF d \in DOMAIN row THEN row[d] ELSE <<>>

DimKey(row, dimensions) ==
    IF dimensions # <<>>
    THEN Join(SEP, [i \in 1..Len(dimensions) |-> Get(row, dimensions[i])])
    ELSE TOTAL

\* d.update(e)
Update(d, e) ==
    [f \in DOMAIN d \cup DOMAIN e |-> IF f \in DOMAIN e THEN e[f] ELSE d[f]]

Header(brand, dr) ==
    [f \in {"brand_name", "property_id", "period"} |->
        CASE f = "brand_name" -> brand.name
          [] f = "property_id" -> brand.property_id
          [] f = "period" -> dr.label]

HasKey(rows, key) == \E i \in 1..Len(rows) : rows[i].key = key

IndexOfKey(rows, key) == CHOOSE i \in 1..Len(rows) : rows[i].key = key

\* faulty variant: the row of a key is created anew for every result row
MergeRowReseeds(rows, brand, dr, dimensions, chunk, row) ==
    LET dim_key == DimKey(row, dimensions)
        seed == [key |-> dim_key,
                 row |-> Update(Header(brand, dr),
                                [d \in Range(dimensions) |-> Get(row, d)])]
        seeded ==
            IF HasKey(rows, dim_key)
            THEN [rows EXCEPT ![IndexOfKey(rows, dim_key)] = seed]
            ELSE Append(rows, seed)
        k == IndexOfKey(seeded, dim_key)
        fields == [m \in {x \in Range(chunk) : x \in DOMAIN row} |-> row[m]]
    IN  [seeded EXCEPT ![k].row = Update(@, fields)]

\* the body of "for row in rows" for one row
MergeRow(rows, brand, dr, dimensions, chunk, row) ==
    LET dim_key == DimKey(row, dimensions)
        seeded ==
            IF HasKey(rows, dim_key) THEN rows
            ELSE Append(rows,
                    [key |-> dim_key,
                     row |-> Update(Header(brand, dr),
                                    [d \in Range(dimensions) |-> Get(row, d)])])
        k == IndexOfKey(seeded, dim_key)
        fields == [m \in {x \in Range(chunk) : x \in DOMAIN row} |-> row[m]]
    IN  [seeded EXCEPT ![k].row = Update(@, fields)]

\* "for row in rows" over the results of one chunk
RECURSIVE MergeRows(_, _, _, _, _, _)
MergeRows(rows, brand, dr, dimensions, chunk, results) ==
    IF results = <<>> THEN rows
    ELSE MergeRows(MergeRow(rows, brand, dr, dimensions, chunk, Head(results)),
                   brand, dr, dimensions, chunk, Tail(results))

\* faulty variant: a cell without rows is left out of the output
WithTotalRowOmitted(rows, brand, dr, dimensions) == rows

\* "if not combined_rows and not dimensions": the header-only row
WithTotalRow(rows, brand, dr, dimensions) ==
    IF rows = <<>> /\ dimensions = <<>>
    THEN <<[key |-> TOTAL, row |-> Header(brand, dr)]>>
    ELSE rows

\* ------------------------------------------------------------ configurations
\* batch_config.json: the report definitions a configuration may list
Totals == [name |-> "totals", dimensions |-> <<>>, metrics |-> <<"m1">>]
Geo == [name |-> "geo", dimensions |-> <<"d1", "d2">>, metrics |-> <<"m1">>]
Wide == [name |-> "wide", dimensions |-> <<>>,
         metrics |-> <<"m1", "m2", "m3", "m4", "m5", "m6", "m7", "m8", "m9", "m10", "m1">>]
Blank == [name |-> "blank", dimensions |-> <<>>, metrics |-> <<>>]

\* the definitions in the order a configuration lists them
Catalogue == <<Blank, Totals, Geo, Wide>>

\* the increasing selections of at most MaxReports positions of the catalogue
Selections ==
    {sel \in UNION {[1..n -> 1..Len(Catalogue)] : n \in 0..MaxReports} :
        \A i, j \in 1..Len(sel) : i < j => sel[i] < sel[j]}

ReportLists == {[i \in 1..Len(sel) |-> Catalogue[sel[i]]] : sel \in Selections}

\* n brands; with placeholder = 1 the first still has the placeholder property id
\* (lists of one or two brands)
BrandList(n, placeholder) ==
    [i \in 1..n |->
        [name |-> i,
         property_id |-> IF placeholder = 1 /\ i = 1 THEN "FILL_IN" ELSE "prop"]]

BrandLists ==
    {BrandList(n, 0) : n \in 0..MaxBrands}
        \cup {BrandList(n, 1) : n \in 1..Min(2, MaxBrands)}

DateRangeList(n) == [j \in 1..n |-> [label |-> j]]

\* active = [b for b in brands if b.get("property_id", "FILL_IN") != "FILL_IN"]
Active(brands) == SelectSeq(brands, LAMBDA b : b.property_id # "FILL_IN")

Planned(cfg) ==
    Len(Active(cfg.brands)) * Len(cfg.date_ranges)
      * SumSeq([i \in 1..Len(cfg.reports) |->
                  Len(ChunkMetrics(cfg.reports[i].metrics, MAX_METRICS_PER_REQUEST))])

Configs ==
    {cfg \in [brands : BrandLists,
              date_ranges : {DateRangeList(n) : n \in 0..MaxWindows},
              reports : ReportLists] :
        Planned(cfg) <= MaxQueries}

\* --------------------------------------------------- the remote reporting API
Raw(dvs, v, n) == [dimension_values |-> dvs, metric_values |-> [i \in 1..n |-> v]]

\* response.rows the API may answer a request of `report` for `chunk` with; a
\* full chunk of "wide" is answered with other values than its last, short chunk
ApiResponses(report, chunk) ==
    CASE report.name = "totals" ->
            {<<>>, <<Raw(<<>>, "v1", Len(chunk))>>}
      [] report.name = "wide" ->
            {<<Raw(<<>>, IF Len(chunk) = MAX_METRICS_PER_REQUEST THEN "v1" ELSE "v2",
                   Len(chunk))>>}
      [] report.name = "geo" ->
            {<<Raw(<< <<"a", "|">>, <<>> >>, "v1", Len(chunk)),
               Raw(<< <<"a">>, <<"|">> >>, "v2", Len(chunk))>>,
             <<Raw(<< <<"a">>, <<"b">> >>, "v1", Len(chunk))>>}
      [] OTHER -> {<<>>}

\* ----------------------------------------------------------------------- Init
CmIdle ==
    /\ cm_pc = "idle"
    /\ cm_metrics = <<>>
    /\ cm_max_size = 1
    /\ cm_result = <<>>

Init ==
    /\ pc = "load_config"
    /\ config \in Configs
    /\ exit_code = "none"
    /\ ri = 0 /\ bi = 0 /\ wi = 0 /\ ci = 0
    /\ metric_chunks = <<>>
    /\ combined_rows = <<>>
    /\ csv_files = <<>>
    /\ total_queries = 0
    /\ errors = <<>>
    /\ log = <<>>
    /\ CmIdle

\* ----------------------------------------------------------------------- main
\* load_batch_config: no active brand, sys.exit(1)
LoadBatchConfigExit ==
    /\ pc = "load_config"
    /\ Active(config.brands) = <<>>
    /\ pc' = "exit"
    /\ exit_code' = 1
    /\ UNCHANGED <<config, ri, bi, wi, ci, metric_chunks, combined_rows, csv_files,
                   total_queries, errors, log, cm_vars>>

\* load_batch_config: config["brands"] = active
LoadBatchConfig ==
    /\ pc = "load_config"
    /\ Active(config.brands) # <<>>
    /\ config' = [config EXCEPT !.brands = Active(config.brands)]
    /\ pc' = "load_creds"
    /\ UNCHANGED <<exit_code, ri, bi, wi, ci, metric_chunks, combined_rows, csv_files,
                   total_queries, errors, log, cm_vars>>

\* main: load_credentials raises, return 2
LoadCredentialsFail ==
    /\ pc = "load_creds"
    /\ pc' = "exit"
    /\ exit_code' = 2
    /\ UNCHANGED <<config, ri, bi, wi, ci, metric_chunks, combined_rows, csv_files,
                   total_queries, errors, log, cm_vars>>

\* main: load_credentials returns; run_batch starts with total_queries = 0, errors = []
LoadCredentials ==
    /\ pc = "load_creds"
    /\ pc' = "for_report"
    /\ total_queries' = 0
    /\ errors' = <<>>
    /\ UNCHANGED <<config, exit_code, ri, bi, wi, ci, metric_chunks, combined_rows,
                   csv_files, log, cm_vars>>

\* ------------------------------------------------------------------ run_batch
Report == config.reports[ri]
Brand == config.brands[bi]
DateRange == config.date_ranges[wi]

\* for report in reports: chunk the metrics, open the csv and write its header
ForReport ==
    /\ pc = "for_report"
    /\ ri < Len(config.reports)
    /\ ri' = ri + 1
    /\ LET report == config.reports[ri + 1] IN
        /\ metric_chunks' = ChunkMetrics(report.metrics, MAX_METRICS_PER_REQUEST)
        /\ csv_files' = Append(csv_files,
                [name |-> report.name,
                 fieldnames |-> <<"brand_name", "property_id", "period">>
                                  \o report.dimensions \o report.metrics,
                 rows |-> <<>>,
                 closed |-> FALSE])
    /\ bi' = 0
    /\ pc' = "for_brand"
    /\ UNCHANGED <<config, exit_code, wi, ci, combined_rows, total_queries, errors,
                   log, cm_vars>>

\* the reports are exhausted: the summary is logged, run_batch returns, main returns 0
ReportsDone ==
    /\ pc = "for_report"
    /\ ri = Len(config.reports)
    /\ pc' = "exit"
    /\ exit_code' = 0
    /\ UNCHANGED <<config, ri, bi, wi, ci, metric_chunks, combined_rows, csv_files,
                   total_queries, errors, log, cm_vars>>

\* for brand in brands
ForBrand ==
    /\ pc = "for_brand"
    /\ bi < Len(config.brands)
    /\ bi' = bi + 1
    /\ wi' = 0
    /\ pc' = "for_dr"
    /\ UNCHANGED <<config, exit_code, ri, ci, metric_chunks, combined_rows, csv_files,
                   total_queries, errors, log, cm_vars>>

\* faulty variant: the report's file is never closed
BrandsDoneLeftOpen ==
    /\ pc = "for_brand"
    /\ bi = Len(config.brands)
    /\ pc' = "for_report"
    /\ UNCHANGED <<config, exit_code, ri, bi, wi, ci, metric_chunks, combined_rows,
                   csv_files, total_queries, errors, log, cm_vars>>

\* the brands are exhausted: csv_file.close()
BrandsDone ==
    /\ pc = "for_brand"
    /\ bi = Len(config.brands)
    /\ csv_files' = [csv_files EXCEPT ![ri].closed = TRUE]
    /\ pc' = "for_report"
    /\ UNCHANGED <<config, exit_code, ri, bi, wi, ci, metric_chunks, combined_rows,
                   total_queries, errors, log, cm_vars>>

\* faulty variant: the date ranges are visited from the last to the first
ForDateRangeDescending ==
    /\ pc = "for_dr"
    /\ wi # 1
    /\ Len(config.date_ranges) > 0
    /\ wi' = IF wi = 0 THEN Len(config.date_ranges) ELSE wi - 1
    /\ combined_rows' = <<>>
    /\ ci' = 0
    /\ pc' = "for_chunk"
    /\ UNCHANGED <<config, exit_code, ri, bi, metric_chunks, csv_files, total_queries,
                   errors, log, cm_vars>>

\* for dr in date_ranges: combined_rows = {}
ForDateRange ==
    /\ pc = "for_dr"
    /\ wi < Len(config.date_ranges)
    /\ wi' = wi + 1
    /\ combined_rows' = <<>>
    /\ ci' = 0
    /\ pc' = "for_chunk"
    /\ UNCHANGED <<config, exit_code, ri, bi, metric_chunks, csv_files, total_queries,
                   errors, log, cm_vars>>

DateRangesDone ==
    /\ pc = "for_dr"
    /\ wi = Len(config.date_ranges)
    /\ pc' = "for_brand"
    /\ UNCHANGED <<config, exit_code, ri, bi, wi, ci, metric_chunks, combined_rows,
                   csv_files, total_queries, errors, log, cm_vars>>

QueryEvent(c, ok, results) ==
    [kind |-> "query", report |-> ri, brand |-> bi, window |-> wi, chunk |-> c,
     ok |-> ok, rows |-> results]

SleepEvent(seconds) == [kind |-> "sleep", seconds |-> seconds]

\* time.sleep(REQUEST_DELAY_SECONDS) at the end of the try block
SuccessDelay == REQUEST_DELAY_SECONDS

\* faulty variant: no elevated delay after a failure
FailureDelayBase == REQUEST_DELAY_SECONDS

\* time.sleep(REQUEST_DELAY_SECONDS * 2) in the except block
FailureDelay == REQUEST_DELAY_SECONDS * 2

\* for chunk in metric_chunks, try block: run_report returns, the rows are merged
ChunkSucceeds ==
    /\ pc = "for_chunk"
    /\ ci < Len(metric_chunks)
    /\ ci' = ci + 1
    /\ \E response \in ApiResponses(Report, metric_chunks[ci + 1]) :
        LET chunk == metric_chunks[ci + 1]
            rows == Results(Report.dimensions, chunk, response)
        IN  /\ total_queries' = total_queries + 1
            /\ combined_rows' =
                  MergeRows(combined_rows, Brand, DateRange, Report.dimensions, chunk, rows)
            /\ log' = log \o <<QueryEvent(ci + 1, TRUE, rows), SleepEvent(SuccessDelay)>>
    /\ UNCHANGED <<pc, config, exit_code, ri, bi, wi, metric_chunks, csv_files, errors,
                   cm_vars>>

ErrorMsg == [brand_name |-> Brand.name, period |-> DateRange.label,
             report_name |-> Report.name]

\* faulty variant: a failed query is counted as issued
ChunkFailsCounted ==
    /\ pc = "for_chunk"
    /\ ci < Len(metric_chunks)
    /\ ci' = ci + 1
    /\ total_queries' = total_queries + 1
    /\ errors' = Append(errors, ErrorMsg)
    /\ log' = log \o <<QueryEvent(ci + 1, FALSE, <<>>), SleepEvent(FailureDelay)>>
    /\ UNCHANGED <<pc, config, exit_code, ri, bi, wi, metric_chunks, combined_rows,
                   csv_files, cm_vars>>

\* faulty variant: the exception leaves run_batch and main
ChunkFailsPropagates ==
    /\ pc = "for_chunk"
    /\ ci < Len(metric_chunks)
    /\ ci' = ci + 1
    /\ pc' = "exit"
    /\ exit_code' = 1
    /\ log' = log \o <<QueryEvent(ci + 1, FALSE, <<>>)>>
    /\ UNCHANGED <<config, ri, bi, wi, metric_chunks, combined_rows, csv_files,
                   total_queries, errors, cm_vars>>

\* faulty variant: the failed chunk is queried again
ChunkFailsRetried ==
    /\ pc = "for_chunk"
    /\ ci < Len(metric_chunks)
    /\ errors' = Append(errors, ErrorMsg)
    /\ log' = log \o <<QueryEvent(ci + 1, FALSE, <<>>), SleepEvent(FailureDelay)>>
    /\ UNCHANGED <<pc, config, exit_code, ri, bi, wi, ci, metric_chunks, combined_rows,
                   csv_files, total_queries, cm_vars>>

\* for chunk in metric_chunks, except block: run_report raises
ChunkFails ==
    /\ pc = "for_chunk"
    /\ ci < Len(metric_chunks)
    /\ ci' = ci + 1
    /\ errors' = Append(errors, ErrorMsg)
    /\ log' = log \o <<QueryEvent(ci + 1, FALSE, <<>>), SleepEvent(FailureDelay)>>
    /\ UNCHANGED <<pc, config, exit_code, ri, bi, wi, metric_chunks, combined_rows,
                   csv_files, total_queries, cm_vars>>

\* the chunks are exhausted: the header-only row if need be, then writer.writerow
\* for every value of combined_rows
ChunksDone ==
    /\ pc = "for_chunk"
    /\ ci = Len(metric_chunks)
    /\ combined_rows' = WithTotalRow(combined_rows, Brand, DateRange, Report.dimensions)
    /\ csv_files' = [csv_files EXCEPT ![ri].rows =
                        @ \o [i \in 1..Len(combined_rows') |-> combined_rows'[i].row]]
    /\ pc' = "for_dr"
    /\ UNCHANGED <<config, exit_code, ri, bi, wi, ci, metric_chunks, total_queries,
                   errors, log, cm_vars>>

Next ==
    \/ LoadBatchConfigExit
    \/ LoadBatchConfig
    \/ LoadCredentialsFail
    \/ LoadCredentials
    \/ ForReport
    \/ ReportsDone
    \/ ForBrand
    \/ BrandsDone
    \/ ForDateRange
    \/ DateRangesDone
    \/ ChunkSucceeds
    \/ ChunkFails
    \/ ChunksDone

Spec == Init /\ [][Next]_vars

\* the same program under the scheduler of a sequential process, a step that can
\* be taken is taken, for the configurations of at most MaxFairQueries queries
FairInit == Init /\ Planned(config) <= MaxFairQueries

FairSpec == FairInit /\ [][Next]_vars /\ WF_vars(Next)

\* ------------------------------------------------- chunk_metrics on its own
MetricNames == {"m1", "m2", "m3"}

MetricLists == UNION {[1..n -> MetricNames] : n \in 0..MaxLen}

ChunkInit ==
    /\ pc = "idle"
    /\ config = [brands |-> <<>>, date_ranges |-> <<>>, reports |-> <<>>]
    /\ exit_code = "none"
    /\ ri = 0 /\ bi = 0 /\ wi = 0 /\ ci = 0
    /\ metric_chunks = <<>>
    /\ combined_rows = <<>>
    /\ csv_files = <<>>
    /\ total_queries = 0
    /\ errors = <<>>
    /\ log = <<>>
    /\ cm_pc = "call"
    /\ cm_metrics \in MetricLists
    /\ cm_max_size \in 1..MaxSize
    /\ cm_result = <<>>

\* chunk_metrics(cm_metrics, cm_max_size) returns
CallChunkMetrics ==
    /\ cm_pc = "call"
    /\ cm_result' = ChunkMetrics(cm_metrics, cm_max_size)
    /\ cm_pc' = "returned"
    /\ UNCHANGED <<cm_metrics, cm_max_size, batch_vars>>

ChunkNext == CallChunkMetrics

ChunkSpec == ChunkInit /\ [][ChunkNext]_vars

\* ceil(l / m) for m > 0
CeilDiv(l, m) == (l + m - 1) \div m

\* C3: for every metric list of length L and every max_size M > 0, chunk_metrics
\* returns exactly ceil(L / M) chunks, their concatenation in order is the input
\* list, and no chunk is longer than M.
C3_Chunking ==
    cm_pc = "returned" =>
        /\ Len(cm_result) = CeilDiv(Len(cm_metrics), cm_max_size)
        /\ Concat(cm_result) = cm_metrics
        /\ \A k \in 1..Len(cm_result) : Len(cm_result[k]) <= cm_max_size

\* a list that does not divide evenly: the last chunk is the shorter one
C3_Witness ==
    /\ cm_pc = "returned"
    /\ Len(cm_metrics) = 5
    /\ cm_max_size = 2
    /\ Len(cm_result) = 3
    /\ Len(cm_result[3]) = 1

\* C4: chunk_metrics called with an empty metric list does not return (it fails
\* with InvalidInputError), whatever max_size > 0 is.
C4_EmptyListFails ==
    (cm_pc # "call" /\ cm_metrics = <<>>) => cm_pc = "raised"

\* --------------------------------------------------- what a run did, from log
Queries == SelectSeq(log, LAMBDA e : e.kind = "query")

Failed == SelectSeq(Queries, LAMBDA q : ~q.ok)

\* run_batch returned and main returned 0
Completed == pc = "exit" /\ exit_code = 0

\* the number of chunk queries of a whole run of the configuration
Expected ==
    Len(config.brands) * Len(config.date_ranges)
      * SumSeq([i \in 1..Len(config.reports) |->
                  CeilDiv(Len(config.reports[i].metrics), MAX_METRICS_PER_REQUEST)])

HeaderFields == {"brand_name", "property_id", "period"}

\* the rows of report r's file that carry the header of cell (r, b, w)
CellRows(r, b, w) ==
    SelectSeq(csv_files[r].rows,
              LAMBDA o : /\ o["brand_name"] = config.brands[b].name
                         /\ o["period"] = config.date_ranges[w].label)

CellQueries(r, b, w) ==
    SelectSeq(Queries, LAMBDA q : q.report = r /\ q.brand = b /\ q.window = w)

\* the result rows run_report returned to the chunks of cell (r, b, w)
Returned(r, b, w) ==
    UNION {Range(q.rows) : q \in Range(CellQueries(r, b, w))}

\* the dimension values of a result row or of a written row, in the report's order
DimTuple(rec, dimensions) == [i \in 1..Len(dimensions) |-> rec[dimensions[i]]]

\* Cell (r, b, w) is in the output with what its chunks returned: it has a row
\* exactly if a chunk returned one or the report has no dimensions; every row
\* carries the cell's header; every dimension tuple and every metric value
\* written was returned by a chunk of this cell; and every field a chunk
\* returned is written.
CellWritten(r, b, w) ==
    LET rows == CellRows(r, b, w)
        dims == config.reports[r].dimensions
        got == Returned(r, b, w)
    IN  /\ (rows # <<>>) <=> (got # {} \/ dims = <<>>)
        /\ \A i \in 1..Len(rows) :
            /\ rows[i]["property_id"] = config.brands[b].property_id
            /\ got # {} =>
                 \E rec \in got : DimTuple(rec, dims) = DimTuple(rows[i], dims)
            /\ \A f \in (DOMAIN rows[i]) \ (HeaderFields \cup Range(dims)) :
                 \E rec \in got : f \in DOMAIN rec /\ rec[f] = rows[i][f]
        /\ \A rec \in got : \A f \in DOMAIN rec :
             \E i \in 1..Len(rows) : f \in DOMAIN rows[i]

\* C1: fault isolation.  In a run where run_report failed for exactly one chunk
\* query, the run completes with every chunk query attempted, total_queries is
\* the number of attempts minus one, errors has length 1, and every cell without
\* the failure is written with the values its chunks returned.
C1_FaultIsolation ==
    (pc = "exit" /\ Len(Failed) = 1) =>
        /\ exit_code = 0
        /\ Len(Queries) = Expected
        /\ total_queries = Len(Queries) - 1
        /\ Len(errors) = 1
        /\ \A r \in 1..Len(config.reports) :
           \A b \in 1..Len(config.brands) :
           \A w \in 1..Len(config.date_ranges) :
              (\A q \in Range(CellQueries(r, b, w)) : q.ok) => CellWritten(r, b, w)

\* one failure among at least four queries, in a cell that is not the last, and
\* a later cell with data
C1_Witness ==
    /\ Completed
    /\ Len(Failed) = 1
    /\ Len(Queries) >= 4
    /\ ~Queries[1].ok
    /\ \E i \in 2..Len(Queries) : Queries[i].ok /\ Queries[i].rows # <<>>
    /\ \E r \in 1..Len(csv_files) : Len(csv_files[r].rows) >= 2

\* C2: whatever chunk queries fail, no failure leaves the chunk iteration:
\* run_batch, once started, finishes after reaching every report and attempting
\* every chunk query, and main then returns 0, with or without errors.
C2_FailuresNeverPropagate ==
    (pc = "for_report") ~>
        (pc = "exit" /\ exit_code = 0 /\ ri = Len(config.reports)
            /\ Len(Queries) = Expected)

\* a completed run in which every one of at least two chunk queries failed
C2_Witness ==
    /\ Completed
    /\ Len(Queries) >= 2
    /\ Len(Failed) = Len(Queries)
    /\ Len(errors) = Len(Queries)

\* C5: completeness.  For a report without dimensions every cell is in the
\* report's output exactly once: a finished cell's row map has the single key
\* "__total__"; a cell whose chunks returned no row is written as one row of the
\* header fields only; after the run each cell has exactly one row.
C5_Completeness ==
    /\ (pc = "for_dr" /\ wi >= 1 /\ Report.dimensions = <<>>) =>
          /\ Len(combined_rows) = 1
          /\ combined_rows[1].key = TOTAL
          /\ Returned(ri, bi, wi) = {} => combined_rows[1].row = Header(Brand, DateRange)
          /\ Returned(ri, bi, wi) # {} => HeaderFields \subseteq DOMAIN combined_rows[1].row
    /\ Completed =>
          \A r \in 1..Len(config.reports) :
              config.reports[r].dimensions = <<>> =>
                 /\ Len(csv_files[r].rows)
                        = Len(config.brands) * Len(config.date_ranges)
                 /\ \A b \in 1..Len(config.brands) :
                    \A w \in 1..Len(config.date_ranges) :
                       /\ Len(CellRows(r, b, w)) = 1
                       /\ Returned(r, b, w) = {} =>
                             DOMAIN CellRows(r, b, w)[1] = HeaderFields

\* a completed run with a cell whose only query failed, a cell whose query
\* returned no row and a cell with data, all of a report without dimensions
C5_Witness ==
    /\ Completed
    /\ \E r \in 1..Len(config.reports) :
        /\ config.reports[r].dimensions = <<>>
        /\ \E i, j, k \in 1..Len(Queries) :
            /\ Queries[i].report = r /\ ~Queries[i].ok
            /\ Queries[j].report = r /\ Queries[j].ok /\ Queries[j].rows = <<>>
            /\ Queries[k].report = r /\ Queries[k].ok /\ Queries[k].rows # <<>>
        /\ Len(csv_files[r].rows) >= 3

\* C6: disjointness.  Within a cell a metric field of a combined row, once
\* written by a chunk, is not written again by a later chunk with another value.
C6_NoOverwrite ==
    [][(pc = "for_chunk" /\ pc' = "for_chunk") =>
          \A i \in 1..Len(combined_rows) :
              \A f \in DOMAIN combined_rows[i].row :
                  combined_rows'[i].row[f] = combined_rows[i].row[f]]_vars

\* C7: within a cell there is one combined row per distinct tuple of dimension
\* values returned so far.
C7_OneRowPerTuple ==
    (pc = "for_chunk" /\ Report.dimensions # <<>>) =>
        Len(combined_rows)
            = Cardinality({DimTuple(rec, Report.dimensions) : rec \in Returned(ri, bi, wi)})

\* (report, brand, window, chunk) positions, compared lexicographically
RECURSIVE LexLess(_, _)
LexLess(a, b) ==
    IF a = <<>> \/ b = <<>> THEN FALSE
    ELSE \/ Head(a) < Head(b)
         \/ Head(a) = Head(b) /\ LexLess(Tail(a), Tail(b))

QueryPos(q) == <<q.report, q.brand, q.window, q.chunk>>

\* the (brand, window) position of the cell a written row belongs to
RowPos(o) ==
    <<CHOOSE b \in 1..Len(config.brands) : config.brands[b].name = o["brand_name"],
      CHOOSE w \in 1..Len(config.date_ranges) : config.date_ranges[w].label = o["period"]>>

\* C8: the chunk queries are issued in increasing lexicographic order of
\* (report, brand, window, chunk) position, and the rows of a report's output
\* are in the order of their cells.  The order is transitive, so each query is
\* compared with the next one and each row with the next one.
C8_NestedOrder ==
    LET qs == Queries IN
    /\ \A i \in 1..(Len(qs) - 1) : LexLess(QueryPos(qs[i]), QueryPos(qs[i + 1]))
    /\ \A r \in 1..Len(csv_files) :
          LET pos == [i \in 1..Len(csv_files[r].rows) |-> RowPos(csv_files[r].rows[i])]
          IN  \A i \in 1..(Len(pos) - 1) : ~LexLess(pos[i + 1], pos[i])

\* a completed run of two reports, two brands and two date ranges
C8_Witness ==
    /\ Completed
    /\ Len(config.reports) = 2 /\ Len(config.brands) = 2 /\ Len(config.date_ranges) = 2
    /\ Len(Queries) = 8
    /\ \A r \in 1..2 : Len(csv_files[r].rows) >= 4

\* C9 as stated: every query, the first of the run too, is preceded by a wait,
\* and the wait after a query is the base delay after a success and twice the
\* base delay after a failure.
C9_WaitBeforeEveryQuery ==
    \A i \in 1..Len(log) :
        log[i].kind = "query" =>
            /\ i > 1 /\ log[i - 1].kind = "sleep"
            /\ i < Len(log) /\ log[i + 1].kind = "sleep"
            /\ log[i + 1].seconds
                  = IF log[i].ok THEN REQUEST_DELAY_SECONDS ELSE 2 * REQUEST_DELAY_SECONDS

\* C9 amended: every query is followed by a wait of the base delay after a
\* success and of twice the base delay after a failure, so consecutive queries
\* are separated by a wait; nothing waits before the first query of a run.
C9_WaitAfterEveryQuery ==
    /\ \A i \in 1..Len(log) :
        log[i].kind = "query" =>
            /\ i < Len(log) /\ log[i + 1].kind = "sleep"
            /\ log[i + 1].seconds
                  = IF log[i].ok THEN REQUEST_DELAY_SECONDS ELSE 2 * REQUEST_DELAY_SECONDS
    /\ log # <<>> => log[1].kind = "query"
    /\ \A i \in 1..Len(log) : log[i].kind = "sleep" => i > 1 /\ log[i - 1].kind = "query"

\* a failed query and a successful one, each followed by its wait, then a query
C9_Witness ==
    /\ Len(Queries) >= 3
    /\ ~Queries[1].ok
    /\ Queries[2].ok
    /\ log[2] = SleepEvent(2 * REQUEST_DELAY_SECONDS)
    /\ log[4] = SleepEvent(REQUEST_DELAY_SECONDS)

\* the error record of a failed query
ErrorOf(q) ==
    [brand_name |-> config.brands[q.brand].name,
     period |-> config.date_ranges[q.window].label,
     report_name |-> config.reports[q.report].name]

\* C10: no retry.  No (report, brand, window, chunk) combination is queried
\* twice; errors holds, in order, exactly one record per failed query and
\* total_queries counts the successful ones; a completed run has attempted every
\* combination, so attempts = sum over reports of brands x windows x chunks
\* = total_queries + number of error records.
C10_NoRetry ==
    LET qs == Queries
        failed == Failed
    IN
    /\ Cardinality({QueryPos(qs[i]) : i \in 1..Len(qs)}) = Len(qs)
    /\ errors = [k \in 1..Len(failed) |-> ErrorOf(failed[k])]
    /\ total_queries = Len(qs) - Len(failed)
    /\ Completed =>
          /\ Len(qs) = Expected
          /\ Len(qs) = total_queries + Len(errors)
          /\ \A r \in 1..Len(config.reports) :
             \A b \in 1..Len(config.brands) :
             \A w \in 1..Len(config.date_ranges) :
             \A c \in 1..CeilDiv(Len(config.reports[r].metrics), MAX_METRICS_PER_REQUEST) :
                \E i \in 1..Len(qs) : QueryPos(qs[i]) = <<r, b, w, c>>

\* a completed run in which the first chunk of a two-chunk cell failed and the
\* second was queried next, with failures and successes
C10_Witness ==
    /\ Completed
    /\ Len(Failed) >= 2
    /\ total_queries >= 2
    /\ ~Queries[1].ok /\ Queries[1].chunk = 1
    /\ Queries[2].chunk = 2 /\ Queries[2].window = Queries[1].window

\* every cell of report r has been processed
CellsDone(r) ==
    \/ r < ri
    \/ /\ r = ri
       /\ bi = Len(config.brands)
       /\ wi = Len(config.date_ranges)
       /\ pc # "for_chunk"

\* cell (b, w) of the current report has been processed
CellDone(b, w) ==
    \/ LexLess(<<b, w>>, <<bi, wi>>)
    \/ <<b, w>> = <<bi, wi>> /\ pc # "for_chunk"

C12_EmptyListsFatal ==
    (\/ Active(config.brands) = <<>>
     \/ config.date_ranges = <<>>
     \/ config.reports = <<>>) =>
        /\ log = <<>>
        /\ csv_files = <<>>
        /\ pc = "exit" => exit_code # 0

====
